---- MODULE Spec2Model ----
(***************************************************************************)
(* Telemetry collector (agent_telemetry.py) and the instrumentation        *)
(* wrapper of app_hybrid.py, as a state machine.                           *)
(*                                                                         *)
(* Python values are written as follows.  An Optional value is a set: {}  *)
(* is None and {v} is the value v.  A float quotient a / b is the reduced *)
(* fraction <<p, q>>.  A dict is a function whose DOMAIN is its key set.   *)
(* A list is a sequence.  The text str(x) of a value is written as its     *)
(* length, {} when str(x) raises.                                          *)
(***************************************************************************)
EXTENDS Integers, Sequences, FiniteSets, TLC

(* ------------------------------ bounds --------------------------------- *)

\* largest max_history a collector is constructed with
MaxHistory == 2

\* number of log_tool_call invocations in one run
MaxCalls == 3

\* largest n passed to get_call_history
MaxN == 2

\* number of wrapped invocations in one run of the wrapper specification
MaxWrapperCalls == 2

(* --------------------------- Python values ----------------------------- *)

None == {}

Some(v) == {v}

TheValue(opt) == CHOOSE v \in opt : TRUE

RECURSIVE GCD(_, _)
GCD(a, b) == IF b = 0 THEN a ELSE GCD(b, a % b)

\* the float a / b (b > 0, a >= 0), as a reduced fraction
Quotient(a, b) == LET g == GCD(a, b) IN <<a \div g, b \div g>>

\* list(reversed(s))
Reversed(s) == [i \in 1..Len(s) |-> s[Len(s) + 1 - i]]

\* s[-n:] for an integer n: a negative index counts from the end and is
\* clamped to the start of the list, -0 is 0, a positive start is clamped
\* to the end
SliceFromMinus(s, n) ==
    LET idx == 0 - n
        start == IF idx < 0
                 THEN (IF Len(s) + idx < 0 THEN 0 ELSE Len(s) + idx)
                 ELSE (IF idx > Len(s) THEN Len(s) ELSE idx)
    IN SubSeq(s, start + 1, Len(s))

\* s.pop() in place of s.pop(0): the newest record goes, not the oldest
PopLast(s) == SubSeq(s, 1, Len(s) - 1)

\* s.pop(0) on a non-empty list: what is left
PopFirst(s) == Tail(s)

(* ------------------------------ inputs --------------------------------- *)

Tools == {"t0", "t1"}

\* the dataclass ToolCall; timestamp is the clock reading at creation
ToolCall(timestamp, tool_name, tool_input, tool_output, execution_time_ms, success, error_message) ==
    [timestamp |-> timestamp,
     tool_name |-> tool_name,
     tool_input |-> tool_input,
     tool_output |-> tool_output,
     execution_time_ms |-> execution_time_ms,
     success |-> success,
     error_message |-> error_message]

\* the [:200] of the snapshots taken by the wrapper
SnapshotLimit == 200

\* no [:200]: the whole text is kept
Untruncated(text) == text

\* str(x)[:200], for the text of x given by its length
Truncated(text) == IF text > SnapshotLimit THEN SnapshotLimit ELSE text

\* {"args": str(args)[:200], "kwargs": str(kwargs)[:200]}
InputSnapshot(args_text, kwargs_text) ==
    [args |-> Truncated(args_text), kwargs |-> Truncated(kwargs_text)]

\* the snapshots of a call without arguments that returned 5.0:
\* str(()) = "()", str({}) = "{}", str(5.0) = "5.0"
NoArgsInput == InputSnapshot(2, 2)

\* argument tuples of direct log_tool_call invocations: <<tool_name,
\* tool_input, tool_output, execution_time_ms, success, error_message>>.
\* execution_time_ms = None stands for a value that is not a number.
DirectArgs ==
    {<<t, NoArgsInput, Some(3), Some(1), TRUE, None>> : t \in Tools}
      \cup {<<t, NoArgsInput, None, Some(1), FALSE, Some("boom")>> : t \in Tools}
      \cup {<<"t0", NoArgsInput, None, Some(2), FALSE, None>>,
            <<"t0", NoArgsInput, Some(3), None, TRUE, None>>}

\* the message of the error str(x) raises for a value that has no text
ReprFailed == "repr failed"

\* one invocation of a wrapped callable: the texts of args and kwargs, and
\* what the callable does: raise Exception(f_msg), or return value, whose
\* text is value.text
Invocation(args_text, kwargs_text, f_raises, f_msg, value) ==
    [args_text |-> args_text, kwargs_text |-> kwargs_text,
     f_raises |-> f_raises, f_msg |-> f_msg, value |-> value]

\* what the wrapped callable does: return a value or raise Exception(msg)
Outcomes == {[raises |-> FALSE, msg |-> ""], [raises |-> TRUE, msg |-> "boom"]}

\* invocations without arguments that return 5.0 or raise
PlainInvocations ==
    {Invocation(Some(2), Some(2), o.raises, o.msg,
                [id |-> "5.0", text |-> Some(3)]) : o \in Outcomes}

\* texts of <<args, kwargs>>: short, over the limit, and args without text
InputTexts ==
    {<<Some(2), Some(2)>>, <<Some(500), Some(2)>>, <<Some(2), Some(201)>>,
     <<None, Some(2)>>}

\* returned values: a short one, a long one, one whose str() raises
ReturnValues ==
    {[id |-> "5.0", text |-> Some(3)],
     [id |-> "long", text |-> Some(1000)],
     [id |-> "unprintable", text |-> None]}

\* invocations with every combination of the above
AllInvocations ==
    {Invocation(i[1], i[2], FALSE, "", v) : i \in InputTexts, v \in ReturnValues}
      \cup {Invocation(i[1], i[2], TRUE, "boom", [id |-> "5.0", text |-> Some(3)]) :
               i \in InputTexts}

\* (time.time() - start_time) * 1000 as seen by the wrapper
Elapsed == {1}

\* n arguments of get_call_history
NArgs == {None} \cup {Some(n) : n \in 0..MaxN}

\* what a caller does to a list it got back from get_call_history
Mutations == {"clear", "pop"}

(* ------------------------------- state --------------------------------- *)

VARIABLES
    max_history,         \* self.max_history
    tool_calls,          \* self.tool_calls
    session_start_time,  \* self.session_start_time
    now,                 \* the clock read by datetime.now()
    logged,              \* every ToolCall created since construction, in order
    clearIdx,            \* Len(logged) at the most recent clear(), 0 if none
    lastOp,              \* the operation that completed last
    lastArg,             \* its argument, for get_call_history
    result,              \* what it returned (None when it raised)
    resultList,          \* which list object result is: "none", "new", "tool_calls"
    raised,              \* whether it raised
    error                \* the message of the error it raised, None if none

telemetryVars ==
    <<max_history, tool_calls, session_start_time, now, logged, clearIdx,
      lastOp, lastArg, result, resultList, raised, error>>

VARIABLES
    telemetry_instance,  \* the module global _telemetry_instance
    instances,           \* the AgentTelemetry objects created so far, by number
    held,                \* what the latest get_telemetry() returned
    prevHeld,            \* what the get_telemetry() before it returned
    resetSinceGet,       \* reset_telemetry() ran after the latest get_telemetry()
    resetBetween,        \* reset_telemetry() ran between the two latest gets
    singletonOp          \* the singleton operation that completed last

singletonVars ==
    <<telemetry_instance, instances, held, prevHeld, resetSinceGet,
      resetBetween, singletonOp>>

VARIABLES
    dataframe,           \* the DataFrame handed to DataAggregator
    aggCall,             \* the latest DataAggregator call: operation and arguments
    aggOutcome           \* how it ended: the value returned or the error raised

aggregatorVars == <<dataframe, aggCall, aggOutcome>>

VARIABLES
    pc,                  \* where each concurrent caller is in its call
    got                  \* what get_telemetry() returned to each concurrent caller

vars == <<telemetryVars, singletonVars, aggregatorVars, pc, got>>

collector == <<max_history, tool_calls, session_start_time>>

(* ---------------------------- AgentTelemetry --------------------------- *)

\* append with the capacity check left out
AppendOnly(calls, call, cap) == Append(calls, call)

\* self.tool_calls.append(tool_call); if len > max_history: pop(0)
AppendAndEvict(calls, call, cap) ==
    LET appended == Append(calls, call)
    IN IF Len(appended) > cap THEN PopFirst(appended) ELSE appended

\* f"{execution_time_ms:.2f}" raises for a value that is not a number
FormatRaises(execution_time_ms) == execution_time_ms = None

\* self.tool_calls[0] in place of self.tool_calls[-1]
get_oldest_call(calls) ==
    IF Len(calls) > 0 THEN Some(calls[1]) ELSE None

get_latest_call(calls) ==
    IF Len(calls) > 0 THEN Some(calls[Len(calls)]) ELSE None

get_call_history(calls, n) ==
    IF n = None THEN Reversed(calls)
    ELSE Reversed(SliceFromMinus(calls, TheValue(n)))

\* counts[name] = 1 in place of counts.get(name, 0) + 1
DictSetOne(d, key) == [k \in DOMAIN d \cup {key} |-> IF k = key THEN 1 ELSE d[k]]

\* counts[name] = counts.get(name, 0) + 1
DictIncr(d, key) ==
    [k \in DOMAIN d \cup {key} |->
        IF k = key THEN (IF key \in DOMAIN d THEN d[key] ELSE 0) + 1 ELSE d[k]]

RECURSIVE CountLoop(_, _, _)
CountLoop(calls, i, counts) ==
    IF i > Len(calls) THEN counts
    ELSE CountLoop(calls, i + 1, DictIncr(counts, calls[i].tool_name))

get_tool_call_counts(calls) == CountLoop(calls, 1, <<>>)

\* the loop with "success" counted for every call, failed or not
RECURSIVE StatsLoopAllSucceed(_, _, _)
StatsLoopAllSucceed(calls, i, tool_stats) ==
    IF i > Len(calls) THEN tool_stats
    ELSE LET name == calls[i].tool_name
             old == IF name \in DOMAIN tool_stats THEN tool_stats[name]
                    ELSE [total |-> 0, success |-> 0]
             new == [total |-> old.total + 1, success |-> old.success + 1]
         IN StatsLoopAllSucceed(calls, i + 1,
                [k \in DOMAIN tool_stats \cup {name} |->
                    IF k = name THEN new ELSE tool_stats[k]])

RECURSIVE StatsLoop(_, _, _)
StatsLoop(calls, i, tool_stats) ==
    IF i > Len(calls) THEN tool_stats
    ELSE LET name == calls[i].tool_name
             old == IF name \in DOMAIN tool_stats THEN tool_stats[name]
                    ELSE [total |-> 0, success |-> 0]
             new == [total |-> old.total + 1,
                     success |-> IF calls[i].success THEN old.success + 1
                                 ELSE old.success]
         IN StatsLoop(calls, i + 1,
                [k \in DOMAIN tool_stats \cup {name} |->
                    IF k = name THEN new ELSE tool_stats[k]])

get_tool_success_rate(calls) ==
    LET tool_stats == StatsLoop(calls, 1, <<>>)
    IN [t \in DOMAIN tool_stats |->
          IF tool_stats[t].total > 0
          THEN Quotient(tool_stats[t].success, tool_stats[t].total)
          ELSE <<0, 1>>]

\* avg_times[name].append(call.execution_time_ms)
RECURSIVE TimesLoop(_, _, _)
TimesLoop(calls, i, avg_times) ==
    IF i > Len(calls) THEN avg_times
    ELSE LET name == calls[i].tool_name
             old == IF name \in DOMAIN avg_times THEN avg_times[name] ELSE <<>>
         IN TimesLoop(calls, i + 1,
                [k \in DOMAIN avg_times \cup {name} |->
                    IF k = name THEN Append(old, calls[i].execution_time_ms)
                    ELSE avg_times[k]])

RECURSIVE SumTimes(_)
SumTimes(times) ==
    IF times = <<>> THEN 0 ELSE TheValue(Head(times)) + SumTimes(Tail(times))

\* sum(times) raises TypeError when a time is not a number
AverageRaises(calls) ==
    \E i \in 1..Len(calls) : calls[i].execution_time_ms = None

get_average_execution_time(calls) ==
    LET avg_times == TimesLoop(calls, 1, <<>>)
    IN [t \in DOMAIN avg_times |->
          Quotient(SumTimes(avg_times[t]), Len(avg_times[t]))]

get_summary(calls, start, clock) ==
    [session_duration_seconds |-> clock - start,
     total_tool_calls |-> Len(calls),
     tool_call_counts |-> get_tool_call_counts(calls),
     tool_success_rates |-> get_tool_success_rate(calls),
     average_execution_times_ms |-> get_average_execution_time(calls)]

(* ------------------------------ actions -------------------------------- *)

\* a step of the collector leaves the singleton and the aggregator alone
CollectorStep == UNCHANGED <<singletonVars, aggregatorVars, pc, got>>

\* AgentTelemetry(max_history = cap), constructed at clock reading 0
Constructed(caps) ==
    /\ max_history \in caps
    /\ tool_calls = <<>>
    /\ now = 0
    /\ session_start_time = now
    /\ logged = <<>>
    /\ clearIdx = 0
    /\ lastOp = "__init__"
    /\ lastArg = None
    /\ result = None
    /\ resultList = "none"
    /\ raised = FALSE
    /\ error = None

\* the part of log_tool_call that changes the collector
Record(tool_name, tool_input, tool_output, execution_time_ms, success, error_message) ==
    LET tool_call == ToolCall(now, tool_name, tool_input, tool_output,
                              execution_time_ms, success, error_message)
    IN /\ tool_calls' = AppendAndEvict(tool_calls, tool_call, max_history)
       /\ logged' = Append(logged, tool_call)
       /\ now' = now + 1
       /\ UNCHANGED <<max_history, session_start_time, clearIdx>>

LogToolCall(tool_name, tool_input, tool_output, execution_time_ms, success, error_message) ==
    /\ Len(logged) < MaxCalls
    /\ Record(tool_name, tool_input, tool_output, execution_time_ms, success,
              error_message)
    /\ raised' = FormatRaises(execution_time_ms)
    /\ error' = IF FormatRaises(execution_time_ms)
                THEN Some("unsupported format string") ELSE None
    /\ lastOp' = "log_tool_call"
    /\ lastArg' = None
    /\ result' = None
    /\ resultList' = "none"
    /\ CollectorStep

\* the except branch with error_message left out of the failure record
FailureArgsNoMessage(call, msg) ==
    <<InputSnapshot(TheValue(call.args_text), TheValue(call.kwargs_text)),
      None, FALSE, None>>

\* the log_tool_call arguments of the except branch for an error with
\* message msg: <<tool_input, tool_output, success, error_message>>
FailureArgs(call, msg) ==
    <<InputSnapshot(TheValue(call.args_text), TheValue(call.kwargs_text)),
      None, FALSE, Some(msg)>>

\* the log_tool_call arguments of the try branch
SuccessArgs(call) ==
    <<InputSnapshot(TheValue(call.args_text), TheValue(call.kwargs_text)),
      Some(Truncated(TheValue(call.value.text))), TRUE, None>>

\* wrapper(*args, **kwargs) from the call of original_func to its end:
\* log is the log_tool_call made (None if none, at most one is made),
\* error the message of the error the wrapper raises (None if it returns)
\* and returns the value it returns.  str(args), str(kwargs) and
\* str(result) are evaluated inside the try block after original_func has
\* returned, and str(args), str(kwargs) again in the except branch.
WrapperRun(call) ==
    LET inputFails == call.args_text = None \/ call.kwargs_text = None
    IN IF call.f_raises
       THEN (IF inputFails
             THEN [log |-> None, error |-> Some(ReprFailed), returns |-> None]
             ELSE [log |-> Some(FailureArgs(call, call.f_msg)),
                   error |-> Some(call.f_msg), returns |-> None])
       ELSE (IF inputFails
             THEN [log |-> None, error |-> Some(ReprFailed), returns |-> None]
             ELSE IF call.value.text = None
             THEN [log |-> Some(FailureArgs(call, ReprFailed)),
                   error |-> Some(ReprFailed), returns |-> None]
             ELSE [log |-> Some(SuccessArgs(call)), error |-> None,
                   returns |-> Some(call.value)])

\* the wrapper of instrument_tool around a callable named tool_name, for one
\* invocation; elapsed is the execution_time_ms it measures, a float
Wrapper(tool_name, call, elapsed) ==
    /\ Len(logged) < MaxCalls
    /\ LET run == WrapperRun(call)
       IN /\ IF run.log = None
             THEN UNCHANGED <<max_history, tool_calls, session_start_time,
                              now, logged, clearIdx>>
             ELSE LET a == TheValue(run.log)
                  IN Record(tool_name, a[1], a[2], Some(elapsed), a[3], a[4])
          /\ raised' = (run.error # None)
          /\ error' = run.error
          /\ result' = run.returns
    /\ lastOp' = "wrapper"
    /\ lastArg' = [tool_name |-> tool_name, call |-> call]
    /\ resultList' = "none"
    /\ CollectorStep

\* clear() that also restarts the session clock
ClearAndRestart ==
    /\ tool_calls' = <<>>
    /\ session_start_time' = now
    /\ clearIdx' = Len(logged)
    /\ raised' = FALSE
    /\ error' = None
    /\ lastOp' = "clear"
    /\ lastArg' = None
    /\ result' = None
    /\ resultList' = "none"
    /\ UNCHANGED <<max_history, now, logged>>
    /\ CollectorStep

Clear ==
    /\ tool_calls' = <<>>
    /\ clearIdx' = Len(logged)
    /\ raised' = FALSE
    /\ error' = None
    /\ lastOp' = "clear"
    /\ lastArg' = None
    /\ result' = None
    /\ resultList' = "none"
    /\ UNCHANGED <<max_history, session_start_time, now, logged>>
    /\ CollectorStep

\* a query that returns value and leaves the collector alone
Returns(op, value) ==
    /\ raised' = FALSE
    /\ error' = None
    /\ lastOp' = op
    /\ lastArg' = None
    /\ result' = value
    /\ resultList' = "none"
    /\ UNCHANGED <<max_history, tool_calls, session_start_time, now, logged,
                   clearIdx>>
    /\ CollectorStep

\* a query that raises
Raises(op) ==
    /\ raised' = TRUE
    /\ error' = Some("unsupported operand type(s)")
    /\ lastOp' = op
    /\ lastArg' = None
    /\ result' = None
    /\ resultList' = "none"
    /\ UNCHANGED <<max_history, tool_calls, session_start_time, now, logged,
                   clearIdx>>
    /\ CollectorStep

GetLatestCall == Returns("get_latest_call", get_latest_call(tool_calls))

\* self.tool_calls.reverse(); return self.tool_calls
GetCallHistoryInPlace(n) ==
    /\ raised' = FALSE
    /\ error' = None
    /\ lastOp' = "get_call_history"
    /\ lastArg' = n
    /\ tool_calls' = Reversed(tool_calls)
    /\ result' = Reversed(tool_calls)
    /\ resultList' = "tool_calls"
    /\ UNCHANGED <<max_history, session_start_time, now, logged, clearIdx>>
    /\ CollectorStep

GetCallHistory(n) ==
    /\ raised' = FALSE
    /\ error' = None
    /\ lastOp' = "get_call_history"
    /\ lastArg' = n
    /\ result' = get_call_history(tool_calls, n)
    /\ resultList' = "new"
    /\ UNCHANGED <<max_history, tool_calls, session_start_time, now, logged,
                   clearIdx>>
    /\ CollectorStep

GetToolCallCounts ==
    Returns("get_tool_call_counts", get_tool_call_counts(tool_calls))

GetToolSuccessRate ==
    Returns("get_tool_success_rate", get_tool_success_rate(tool_calls))

GetAverageExecutionTime ==
    IF AverageRaises(tool_calls)
    THEN Raises("get_average_execution_time")
    ELSE Returns("get_average_execution_time",
                 get_average_execution_time(tool_calls))

GetSummary ==
    IF AverageRaises(tool_calls)
    THEN Raises("get_summary")
    ELSE Returns("get_summary",
                 get_summary(tool_calls, session_start_time, now))

\* the caller changes the list it got from get_call_history; the change
\* reaches self.tool_calls only if that list is the same object
MutateReturned(kind) ==
    /\ lastOp = "get_call_history"
    /\ kind = "pop" => Len(result) > 0
    /\ LET changed == CASE kind = "clear" -> <<>>
                        [] kind = "pop" -> SubSeq(result, 1, Len(result) - 1)
       IN /\ result' = changed
          /\ tool_calls' = IF resultList = "tool_calls" THEN changed
                           ELSE tool_calls
    /\ raised' = FALSE
    /\ error' = None
    /\ lastOp' = "mutate_returned"
    /\ UNCHANGED <<max_history, session_start_time, now, logged, clearIdx,
                   lastArg, resultList>>
    /\ CollectorStep

(* ------------------- get_telemetry / reset_telemetry ------------------- *)

\* number of AgentTelemetry objects the singleton functions create in a run
MaxInstances == 3

\* number of records logged through the references handed out in a run
MaxSingletonLogs == 2

\* def __init__(self, max_history: int = 100)
DefaultMaxHistory == 100

\* a step of the singleton functions or through a reference they returned
SingletonStep == UNCHANGED <<telemetryVars, aggregatorVars, pc, got>>

\* _telemetry_instance = None at import, nothing handed out yet
ModuleLoaded ==
    /\ telemetry_instance = None
    /\ instances = <<>>
    /\ held = None
    /\ prevHeld = None
    /\ resetSinceGet = FALSE
    /\ resetBetween = FALSE
    /\ singletonOp = "import"

\* AgentTelemetry()
NewInstance == [max_history |-> DefaultMaxHistory, tool_calls |-> <<>>]

RECURSIVE TotalLogged(_)
TotalLogged(objs) ==
    IF objs = <<>> THEN 0
    ELSE Len(Head(objs).tool_calls) + TotalLogged(Tail(objs))

\* get_telemetry() without the "is None" test
GetTelemetryAlwaysNew ==
    /\ Len(instances) < MaxInstances
    /\ instances' = Append(instances, NewInstance)
    /\ telemetry_instance' = Some(Len(instances) + 1)
    /\ held' = telemetry_instance'
    /\ prevHeld' = held
    /\ resetBetween' = resetSinceGet
    /\ resetSinceGet' = FALSE
    /\ singletonOp' = "get_telemetry"
    /\ SingletonStep

GetTelemetry ==
    /\ telemetry_instance = None => Len(instances) < MaxInstances
    /\ IF telemetry_instance = None
       THEN /\ instances' = Append(instances, NewInstance)
            /\ telemetry_instance' = Some(Len(instances) + 1)
       ELSE UNCHANGED <<instances, telemetry_instance>>
    /\ held' = telemetry_instance'
    /\ prevHeld' = held
    /\ resetBetween' = resetSinceGet
    /\ resetSinceGet' = FALSE
    /\ singletonOp' = "get_telemetry"
    /\ SingletonStep

ResetTelemetry ==
    /\ Len(instances) < MaxInstances
    /\ instances' = Append(instances, NewInstance)
    /\ telemetry_instance' = Some(Len(instances) + 1)
    /\ resetSinceGet' = TRUE
    /\ singletonOp' = "reset_telemetry"
    /\ UNCHANGED <<held, prevHeld, resetBetween>>
    /\ SingletonStep

\* a caller logs a successful call through a reference it was handed
LogThrough(ref) ==
    /\ ref # None
    /\ TotalLogged(instances) < MaxSingletonLogs
    /\ LET obj == instances[TheValue(ref)]
           tool_call == ToolCall(TotalLogged(instances), "t0", NoArgsInput,
                                 Some(3), Some(1), TRUE, None)
       IN instances' =
             [instances EXCEPT ![TheValue(ref)].tool_calls =
                 AppendAndEvict(obj.tool_calls, tool_call, obj.max_history)]
    /\ singletonOp' = "log_tool_call"
    /\ UNCHANGED <<telemetry_instance, held, prevHeld, resetSinceGet,
                   resetBetween>>
    /\ SingletonStep

NextSingleton ==
    \/ GetTelemetry
    \/ ResetTelemetry
    \/ \E ref \in {held, prevHeld} : LogThrough(ref)

(* --------------------------- DataAggregator ---------------------------- *)

\* no DataFrame in use
NoDataset ==
    /\ dataframe = <<>>
    /\ aggCall = None
    /\ aggOutcome = None

\* rows of the datasets drawn by InitAggregator
MaxRows == 2

\* a scalar of a dataset: a number, a text or a null (None / NaN)
Num(n) == [kind |-> "num", num |-> n, text |-> ""]

Text(s) == [kind |-> "text", num |-> 0, text |-> s]

Null == [kind |-> "null", num |-> 0, text |-> ""]

\* the text "1" is a string, not the number 1
Cells == {Num(1), Num(2), Text("1"), Null}

Dtypes == {"int64", "float64", "object"}

\* the dtype pandas gives a column of these values: int64 for numbers,
\* float64 for numbers with NaN, object as soon as a text is among them;
\* nulls alone are NaN (float64) or None (object), and a column without
\* rows keeps the dtype it had
InferredDtypes(values) ==
    IF values = <<>> THEN Dtypes
    ELSE IF \E i \in DOMAIN values : values[i].kind = "text"
    THEN {"object"}
    ELSE IF \A i \in DOMAIN values : values[i].kind = "null"
    THEN {"float64", "object"}
    ELSE IF \E i \in DOMAIN values : values[i].kind = "null"
    THEN {"float64"}
    ELSE {"int64"}

\* the Series of n rows
Columns(n) ==
    {col \in [dtype : Dtypes, values : [1..n -> Cells]] :
        col.dtype \in InferredDtypes(col.values)}

\* dataframe.columns of the datasets, and a name that is not a column
ColumnNames == {"g", "v"}

AbsentName == "z"

Names == ColumnNames \cup {AbsentName}

\* pd.DataFrame with the columns g and v, of 0..MaxRows rows
Datasets == UNION {[ColumnNames -> Columns(n)] : n \in 0..MaxRows}

\* len(dataframe)
NumRows(df) == Len(df[CHOOSE c \in DOMAIN df : TRUE].values)

\* the float NaN; a float p / q is the reduced fraction <<p, q>>
NaN == <<0, 0>>

\* float(n)
Float(n) == <<n, 1>>

\* what an operation does: it returns a value or raises
Returned(value) ==
    [kind |-> "ok", message |-> "", names |-> "", value |-> Some(value)]

\* raise ValueError(f"<message> ... '{names}' ..."), raise KeyError(names)
Raised(kind, message, names) ==
    [kind |-> kind, message |-> message, names |-> names, value |-> None]

\* is_numeric_dtype answering True for every dtype
AnyDtypeNumeric(col) == col.dtype \in Dtypes

\* pd.api.types.is_numeric_dtype
is_numeric_dtype(col) == col.dtype \in {"int64", "float64"}

\* the texts of the four validation errors
NotFoundText == "Column not found"

GroupNotFoundText == "Group column not found"

ValueNotFoundText == "Value column not found"

NotNumericText == "Column is not numeric"

NoRowsText == "No rows found"

UnknownText == "Unknown aggregation function"

IsNonNull(cell) == cell.kind # "null"

\* Series.dropna()
DropNa(values) == SelectSeq(values, IsNonNull)

RECURSIVE SumCells(_)
SumCells(values) ==
    IF values = <<>> THEN 0
    ELSE Head(values).num + SumCells(Tail(values))

\* Series.sum(): nulls are skipped, the sum of nothing is 0
SeriesSum(values) == Float(SumCells(DropNa(values)))

\* Series.mean(): nulls are skipped, the mean of nothing is NaN
SeriesMean(values) ==
    LET present == DropNa(values)
    IN IF present = <<>> THEN NaN
       ELSE Quotient(SumCells(present), Len(present))

\* Series.min() / Series.max(): nulls are skipped, NaN when nothing is left
SeriesMin(values) ==
    LET present == DropNa(values)
    IN IF present = <<>> THEN NaN
       ELSE Float(CHOOSE n \in {present[i].num : i \in DOMAIN present} :
                     \A i \in DOMAIN present : n <= present[i].num)

SeriesMax(values) ==
    LET present == DropNa(values)
    IN IF present = <<>> THEN NaN
       ELSE Float(CHOOSE n \in {present[i].num : i \in DOMAIN present} :
                     \A i \in DOMAIN present : n >= present[i].num)

\* the numbers of a list in ascending order
RECURSIVE SortedNums(_)
SortedNums(values) ==
    IF values = <<>> THEN <<>>
    ELSE LET least == CHOOSE i \in DOMAIN values :
                         \A j \in DOMAIN values : values[i].num <= values[j].num
             rest == [j \in 1..(Len(values) - 1) |->
                         IF j < least THEN values[j] ELSE values[j + 1]]
         IN <<values[least].num>> \o SortedNums(rest)

\* Series.median(): the middle of the sorted non-null values, the mean of
\* the two middle ones when their number is even, NaN when nothing is left
SeriesMedian(values) ==
    LET sorted == SortedNums(DropNa(values))
        n == Len(sorted)
    IN IF n = 0 THEN NaN
       ELSE IF n % 2 = 1 THEN Float(sorted[(n + 1) \div 2])
       ELSE Quotient(sorted[n \div 2] + sorted[n \div 2 + 1], 2)

\* the Series method a numeric operation ends with
Reduce(method, values) ==
    CASE method = "sum" -> SeriesSum(values)
      [] method = "mean" -> SeriesMean(values)
      [] method = "min" -> SeriesMin(values)
      [] method = "max" -> SeriesMax(values)
      [] method = "median" -> SeriesMedian(values)

\* the two checks that open sum_column, average_column, min_column,
\* max_column and median_column, then float(dataframe[column].<method>())
NumericReduction(df, column, method) ==
    IF column \notin DOMAIN df
    THEN Raised("ValueError", NotFoundText, column)
    ELSE IF ~is_numeric_dtype(df[column])
    THEN Raised("ValueError", NotNumericText, column)
    ELSE Returned(Reduce(method, df[column].values))

sum_column(df, column) == NumericReduction(df, column, "sum")

average_column(df, column) == NumericReduction(df, column, "mean")

min_column(df, column) == NumericReduction(df, column, "min")

max_column(df, column) == NumericReduction(df, column, "max")

median_column(df, column) == NumericReduction(df, column, "median")

\* int(dataframe[column].count()): the non-null values
count_column(df, column) ==
    IF column \notin DOMAIN df
    THEN Raised("ValueError", NotFoundText, column)
    ELSE Returned(Len(DropNa(df[column].values)))

\* int(dataframe[column].nunique()): the distinct non-null values
unique_count(df, column) ==
    IF column \notin DOMAIN df
    THEN Raised("ValueError", NotFoundText, column)
    ELSE LET present == DropNa(df[column].values)
         IN Returned(Cardinality({present[i] : i \in DOMAIN present}))

\* Series.unique(): the distinct values, null included, as first met
RECURSIVE Unique(_, _)
Unique(values, seen) ==
    IF values = <<>> THEN seen
    ELSE Unique(Tail(values),
                IF \E i \in DOMAIN seen : seen[i] = Head(values)
                THEN seen ELSE Append(seen, Head(values)))

\* unique_vals[:20]
UniqueLimit == 20

unique_values(df, column) ==
    IF column \notin DOMAIN df
    THEN Raised("ValueError", NotFoundText, column)
    ELSE LET unique_vals == Unique(df[column].values, <<>>)
         IN Returned(SubSeq(unique_vals, 1,
                            IF Len(unique_vals) < UniqueLimit
                            THEN Len(unique_vals) ELSE UniqueLimit))

\* the operation names get_available_aggregations lists for a column
\* for col in dataframe.columns: is_numeric_dtype(dataframe[col].dtype)
get_available_aggregations(df) ==
    Returned([col \in DOMAIN df |->
                 IF is_numeric_dtype(df[col])
                 THEN <<"sum", "avg", "min", "max", "median", "count">>
                 ELSE <<"count", "unique_values">>])

\* str(k) of a group key: a number of a float64 column is written with
\* its fraction digit, a number of any other column without
Digits == <<"0", "1", "2", "3", "4", "5", "6", "7", "8", "9">>

KeyText(dtype, key) ==
    IF key.kind = "text" THEN key.text
    ELSE IF dtype = "float64" THEN Digits[key.num + 1] \o ".0"
    ELSE Digits[key.num + 1]

\* the group keys of groupby(group_column): the distinct non-null values
GroupKeys(col) ==
    {col.values[i] : i \in {j \in DOMAIN col.values : IsNonNull(col.values[j])}}

\* the values of a column in the rows of a group
RECURSIVE RowsWhere(_, _, _)
RowsWhere(keys, key, values) ==
    IF keys = <<>> THEN <<>>
    ELSE (IF Head(keys) = key THEN <<Head(values)>> ELSE <<>>)
         \o RowsWhere(Tail(keys), key, Tail(values))

\* {str(k): ... for k, v in grouped.items()}: the groups come sorted, numbers
\* before texts, and a later key replaces an earlier one of the same text
KeyOfText(col, text) ==
    LET same == {k \in GroupKeys(col) : KeyText(col.dtype, k) = text}
    IN IF \E k \in same : k.kind = "text"
       THEN CHOOSE k \in same : k.kind = "text"
       ELSE CHOOSE k \in same : TRUE

GroupTexts(col) == {KeyText(col.dtype, k) : k \in GroupKeys(col)}

\* the checks that open groupby_sum and groupby_average, then
\* {str(k): float(v)} over groupby(group_column)[value_column].<method>()
GroupedReduction(df, group_column, value_column, method) ==
    IF group_column \notin DOMAIN df
    THEN Raised("ValueError", GroupNotFoundText, group_column)
    ELSE IF value_column \notin DOMAIN df
    THEN Raised("ValueError", ValueNotFoundText, value_column)
    ELSE IF ~is_numeric_dtype(df[value_column])
    THEN Raised("ValueError", NotNumericText, value_column)
    ELSE LET group == df[group_column]
         IN Returned([text \in GroupTexts(group) |->
                Reduce(method, RowsWhere(group.values, KeyOfText(group, text),
                                         df[value_column].values))])

groupby_sum(df, group_column, value_column) ==
    GroupedReduction(df, group_column, value_column, "sum")

groupby_average(df, group_column, value_column) ==
    GroupedReduction(df, group_column, value_column, "mean")

\* {str(k): int(v)} over groupby(group_column).size()
groupby_count(df, group_column) ==
    IF group_column \notin DOMAIN df
    THEN Raised("ValueError", GroupNotFoundText, group_column)
    ELSE LET group == df[group_column]
         IN Returned([text \in GroupTexts(group) |->
                Len(RowsWhere(group.values, KeyOfText(group, text),
                              group.values))])

\* an element of dataframe[filter_column] == filter_value: nulls equal
\* nothing, a text never equals a number
Matches(cell, filter_value) ==
    /\ IsNonNull(cell)
    /\ IsNonNull(filter_value)
    /\ cell = filter_value

RECURSIVE Masked(_, _, _)
Masked(values, mask_values, filter_value) ==
    IF values = <<>> THEN <<>>
    ELSE (IF Matches(Head(mask_values), filter_value)
          THEN <<Head(values)>> ELSE <<>>)
         \o Masked(Tail(values), Tail(mask_values), filter_value)

\* dataframe[mask]: the matching rows of every column, dtypes kept
Filtered(df, filter_column, filter_value) ==
    [c \in DOMAIN df |->
        [dtype |-> df[c].dtype,
         values |-> Masked(df[c].values, df[filter_column].values,
                           filter_value)]]

\* the dispatch with count as the default branch
DispatchOrCount(filtered, agg_column, agg_func) ==
    CASE agg_func = "sum" -> sum_column(filtered, agg_column)
      [] agg_func = "avg" -> average_column(filtered, agg_column)
      [] agg_func = "min" -> min_column(filtered, agg_column)
      [] agg_func = "max" -> max_column(filtered, agg_column)
      [] agg_func = "median" -> median_column(filtered, agg_column)
      [] OTHER -> count_column(filtered, agg_column)

\* if agg_func == "sum": ... else: raise ValueError("Unknown ...")
Dispatch(filtered, agg_column, agg_func) ==
    CASE agg_func = "sum" -> sum_column(filtered, agg_column)
      [] agg_func = "avg" -> average_column(filtered, agg_column)
      [] agg_func = "min" -> min_column(filtered, agg_column)
      [] agg_func = "max" -> max_column(filtered, agg_column)
      [] agg_func = "median" -> median_column(filtered, agg_column)
      [] agg_func = "count" -> count_column(filtered, agg_column)
      [] OTHER -> Raised("ValueError", UnknownText, agg_func)

\* filter_and_aggregate without the "if filtered.empty" test
FilterAndAggregateUnguarded(df, filter_column, filter_value, agg_column, agg_func) ==
    IF filter_column \notin DOMAIN df
    THEN Raised("KeyError", "", filter_column)
    ELSE Dispatch(Filtered(df, filter_column, filter_value), agg_column,
                  agg_func)

\* dataframe[filter_column] raises KeyError for a name that is no column
filter_and_aggregate(df, filter_column, filter_value, agg_column, agg_func) ==
    IF filter_column \notin DOMAIN df
    THEN Raised("KeyError", "", filter_column)
    ELSE LET filtered == Filtered(df, filter_column, filter_value)
         IN IF NumRows(filtered) = 0
            THEN Raised("ValueError", NoRowsText, filter_column)
            ELSE Dispatch(filtered, agg_column, agg_func)

\* the keywords of filter_and_aggregate, and one it does not know
AggFuncs == {"sum", "avg", "min", "max", "median", "count"}

Keywords == AggFuncs \cup {"mode"}

\* the values a caller filters by
FilterValues == {Num(1), Text("1")}

\* an argument an operation does not have
NoArg == ""

\* each behaviour applies one operation to the dataset it started with
NotCalled == aggCall = None

\* the call of an operation of DataAggregator and what it did
Called(op, column, group_column, value_column, filter_column, filter_value, agg_column, agg_func, outcome) ==
    /\ aggCall' = Some([op |-> op, column |-> column,
                        group_column |-> group_column,
                        value_column |-> value_column,
                        filter_column |-> filter_column,
                        filter_value |-> filter_value,
                        agg_column |-> agg_column, agg_func |-> agg_func])
    /\ aggOutcome' = Some(outcome)
    /\ UNCHANGED dataframe
    /\ UNCHANGED <<telemetryVars, singletonVars, pc, got>>

OnColumn(op, column, outcome) ==
    Called(op, column, NoArg, NoArg, NoArg, Null, NoArg, NoArg, outcome)

SumColumn(column) ==
    /\ NotCalled
    /\ OnColumn("sum", column, sum_column(dataframe, column))

AverageColumn(column) ==
    /\ NotCalled
    /\ OnColumn("average", column, average_column(dataframe, column))

MinColumn(column) ==
    /\ NotCalled
    /\ OnColumn("min", column, min_column(dataframe, column))

MaxColumn(column) ==
    /\ NotCalled
    /\ OnColumn("max", column, max_column(dataframe, column))

MedianColumn(column) ==
    /\ NotCalled
    /\ OnColumn("median", column, median_column(dataframe, column))

CountColumn(column) ==
    /\ NotCalled
    /\ OnColumn("count", column, count_column(dataframe, column))

UniqueCount(column) ==
    /\ NotCalled
    /\ OnColumn("unique_count", column, unique_count(dataframe, column))

UniqueValues(column) ==
    /\ NotCalled
    /\ OnColumn("unique_values", column, unique_values(dataframe, column))

GroupbySum(group_column, value_column) ==
    /\ NotCalled
    /\ Called("groupby_sum", NoArg, group_column, value_column, NoArg, Null,
              NoArg, NoArg,
              groupby_sum(dataframe, group_column, value_column))

GroupbyAverage(group_column, value_column) ==
    /\ NotCalled
    /\ Called("groupby_average", NoArg, group_column, value_column, NoArg,
              Null, NoArg, NoArg,
              groupby_average(dataframe, group_column, value_column))

GroupbyCount(group_column) ==
    /\ NotCalled
    /\ Called("groupby_count", NoArg, group_column, NoArg, NoArg, Null,
              NoArg, NoArg, groupby_count(dataframe, group_column))

FilterAndAggregate(filter_column, filter_value, agg_column, agg_func) ==
    /\ NotCalled
    /\ Called("filter_and_aggregate", NoArg, NoArg, NoArg, filter_column,
              filter_value, agg_column, agg_func,
              filter_and_aggregate(dataframe, filter_column, filter_value,
                                   agg_column, agg_func))

GetAvailableAggregations ==
    /\ NotCalled
    /\ Called("get_available_aggregations", NoArg, NoArg, NoArg, NoArg, Null,
              NoArg, NoArg, get_available_aggregations(dataframe))

\* a caller's DataFrame, before any operation
DatasetGiven ==
    /\ dataframe \in Datasets
    /\ aggCall = None
    /\ aggOutcome = None

NextAggregator ==
    \/ \E c \in Names : SumColumn(c)
    \/ \E c \in Names : AverageColumn(c)
    \/ \E c \in Names : MinColumn(c)
    \/ \E c \in Names : MaxColumn(c)
    \/ \E c \in Names : MedianColumn(c)
    \/ \E c \in Names : CountColumn(c)
    \/ \E c \in Names : UniqueCount(c)
    \/ \E c \in Names : UniqueValues(c)
    \/ \E g \in Names, v \in Names : GroupbySum(g, v)
    \/ \E g \in Names, v \in Names : GroupbyAverage(g, v)
    \/ \E g \in Names : GroupbyCount(g)
    \/ \E fc \in Names, fv \in FilterValues, ac \in Names, f \in Keywords :
          FilterAndAggregate(fc, fv, ac, f)
    \/ GetAvailableAggregations

(* ------------------------- aggregation tools --------------------------- *)

\* the tools of create_aggregation_tools that call the aggregation engine
NumericTools == {"sum_column", "average_column", "min_column", "max_column"}

GroupedTools == {"groupby_sum", "groupby_average"}

\* str(e) of the ValueError raised by an operation of the engine
MessageText(outcome) ==
    IF outcome.message = NotFoundText
    THEN "Column '" \o outcome.names \o "' not found"
    ELSE IF outcome.message = NotNumericText
    THEN "Column '" \o outcome.names \o "' is not numeric"
    ELSE IF outcome.message = GroupNotFoundText
    THEN "Group column '" \o outcome.names \o "' not found"
    ELSE IF outcome.message = ValueNotFoundText
    THEN "Value column '" \o outcome.names \o "' not found"
    ELSE outcome.message

\* a tool body without its try / except: the ValueError leaves the tool
ToolBodyUncaught(outcome) ==
    IF outcome.kind = "ok"
    THEN [raises |-> FALSE, msg |-> "",
          returned |-> [text |-> "", value |-> outcome.value]]
    ELSE [raises |-> TRUE, msg |-> MessageText(outcome),
          returned |-> [text |-> "", value |-> None]]

\* try: return DataAggregator.<op>(df, ...)
\* except ValueError as e: return f"Error: {str(e)}"
\* what the body of a tool does with the outcome of the engine: it returns
\* the engine's value, returns a text, or lets another exception through
ToolBody(outcome) ==
    IF outcome.kind = "ok"
    THEN [raises |-> FALSE, msg |-> "",
          returned |-> [text |-> "", value |-> outcome.value]]
    ELSE IF outcome.kind = "ValueError"
    THEN [raises |-> FALSE, msg |-> "",
          returned |-> [text |-> "Error: " \o MessageText(outcome),
                        value |-> None]]
    ELSE [raises |-> TRUE, msg |-> outcome.names,
          returned |-> [text |-> "", value |-> None]]

\* the number of digits of str(n), n >= 0
RECURSIVE DigitCount(_)
DigitCount(n) == IF n < 10 THEN 1 ELSE 1 + DigitCount(n \div 10)

\* the length of str(x) for a float x = p / q >= 0: "nan", "3.0", "1.5",
\* and seventeen significant digits for the thirds
FloatLength(x) ==
    IF x[2] = 0 THEN Len("nan")
    ELSE IF x[2] = 1 THEN DigitCount(x[1]) + Len(".0")
    ELSE IF x[2] = 2 THEN DigitCount(x[1] \div 2) + Len(".5")
    ELSE DigitCount(x[1] \div x[2]) + Len(".3333333333333333")

\* the length of str(d) for a dict of text keys: {'k': v, 'l': w}
RECURSIVE EntriesLength(_, _, _)
EntriesLength(dict, keys, floats) ==
    IF keys = {} THEN 0
    ELSE LET key == CHOOSE k \in keys : TRUE
             rest == keys \ {key}
         IN Len("'") + Len(key) + Len("': ")
              + (IF floats THEN FloatLength(dict[key]) ELSE DigitCount(dict[key]))
              + (IF rest = {} THEN 0 ELSE Len(", "))
              + EntriesLength(dict, rest, floats)

\* the length of str(result) for what a tool returned
ResultLength(tool_name, returned) ==
    IF returned.value = None THEN Len(returned.text)
    ELSE LET value == TheValue(returned.value)
         IN IF tool_name \in NumericTools THEN FloatLength(value)
            ELSE IF tool_name = "count_column" THEN DigitCount(value)
            ELSE Len("{")
                   + EntriesLength(value, DOMAIN value, tool_name \in GroupedTools)
                   + Len("}")

\* one call of an instrumented tool: the tool body runs on the outcome of
\* the engine inside the wrapper of instrument_tool
InvokeTool(tool_name, arguments, outcome, elapsed) ==
    LET body == ToolBody(outcome)
        \* str(args) of the positional column names: ('g',) or ('g', 'v')
        args == IF Len(arguments) = 1 THEN "('" \o arguments[1] \o "',)"
                ELSE "('" \o arguments[1] \o "', '" \o arguments[2] \o "')"
    IN Wrapper(tool_name,
               [args_text |-> Some(Len(args)),
                kwargs_text |-> Some(Len("{}")),
                f_raises |-> body.raises, f_msg |-> body.msg,
                value |-> [id |-> body.returned,
                           text |-> Some(ResultLength(tool_name, body.returned))],
                arguments |-> arguments],
               elapsed)

\* each behaviour invokes one tool on the dataset the tools were built for

SumColumnTool(column_name, elapsed) ==
    /\ logged = <<>>
    /\ InvokeTool("sum_column", <<column_name>>,
                  sum_column(dataframe, column_name), elapsed)

AverageColumnTool(column_name, elapsed) ==
    /\ logged = <<>>
    /\ InvokeTool("average_column", <<column_name>>,
                  average_column(dataframe, column_name), elapsed)

MinColumnTool(column_name, elapsed) ==
    /\ logged = <<>>
    /\ InvokeTool("min_column", <<column_name>>,
                  min_column(dataframe, column_name), elapsed)

MaxColumnTool(column_name, elapsed) ==
    /\ logged = <<>>
    /\ InvokeTool("max_column", <<column_name>>,
                  max_column(dataframe, column_name), elapsed)

CountColumnTool(column_name, elapsed) ==
    /\ logged = <<>>
    /\ InvokeTool("count_column", <<column_name>>,
                  count_column(dataframe, column_name), elapsed)

GroupbySumTool(group_column, value_column, elapsed) ==
    /\ logged = <<>>
    /\ InvokeTool("groupby_sum", <<group_column, value_column>>,
                  groupby_sum(dataframe, group_column, value_column), elapsed)

GroupbyAverageTool(group_column, value_column, elapsed) ==
    /\ logged = <<>>
    /\ InvokeTool("groupby_average", <<group_column, value_column>>,
                  groupby_average(dataframe, group_column, value_column),
                  elapsed)

GroupbyCountTool(group_column, elapsed) ==
    /\ logged = <<>>
    /\ InvokeTool("groupby_count", <<group_column>>,
                  groupby_count(dataframe, group_column), elapsed)

\* get_tool_success_rate once the tool has been invoked
RateAfterTool ==
    /\ lastOp = "wrapper"
    /\ GetToolSuccessRate

NextTools ==
    \/ \E c \in Names, e \in Elapsed : SumColumnTool(c, e)
    \/ \E c \in Names, e \in Elapsed : AverageColumnTool(c, e)
    \/ \E c \in Names, e \in Elapsed : MinColumnTool(c, e)
    \/ \E c \in Names, e \in Elapsed : MaxColumnTool(c, e)
    \/ \E c \in Names, e \in Elapsed : CountColumnTool(c, e)
    \/ \E g, v \in Names, e \in Elapsed : GroupbySumTool(g, v, e)
    \/ \E g, v \in Names, e \in Elapsed : GroupbyAverageTool(g, v, e)
    \/ \E g \in Names, e \in Elapsed : GroupbyCountTool(g, e)
    \/ RateAfterTool

(* -------------------------- concurrent callers ------------------------- *)

\* the threads that share one collector or the module global
Callers == {1, 2}

\* log_tool_call, first statements: the ToolCall is built and appended
AppendCall(c) ==
    /\ pc[c] = "idle"
    /\ Len(logged) < MaxCalls
    /\ LET tool_call == ToolCall(now, "t0", NoArgsInput, Some(3), Some(1),
                                 TRUE, None)
       IN /\ tool_calls' = Append(tool_calls, tool_call)
          /\ logged' = Append(logged, tool_call)
    /\ now' = now + 1
    /\ pc' = [pc EXCEPT ![c] = "check"]
    /\ UNCHANGED <<max_history, session_start_time, clearIdx, lastOp, lastArg,
                   result, resultList, raised, error>>
    /\ UNCHANGED <<singletonVars, aggregatorVars, got>>

\* if len(self.tool_calls) > self.max_history:
CheckCapacity(c) ==
    /\ pc[c] = "check"
    /\ pc' = [pc EXCEPT ![c] = IF Len(tool_calls) > max_history THEN "evict" ELSE "log"]
    /\ UNCHANGED <<telemetryVars, singletonVars, aggregatorVars, got>>

\* self.tool_calls.pop(0), which raises IndexError on an empty list
EvictOldest(c) ==
    /\ pc[c] = "evict"
    /\ IF tool_calls = <<>>
       THEN /\ pc' = [pc EXCEPT ![c] = "idle"]
            /\ lastOp' = "log_tool_call"
            /\ lastArg' = None
            /\ result' = None
            /\ resultList' = "none"
            /\ raised' = TRUE
            /\ error' = Some("pop from empty list")
            /\ UNCHANGED <<max_history, tool_calls, session_start_time, now,
                           logged, clearIdx>>
            /\ UNCHANGED <<singletonVars, aggregatorVars, got>>
       ELSE /\ tool_calls' = PopFirst(tool_calls)
            /\ pc' = [pc EXCEPT ![c] = "log"]
            /\ UNCHANGED <<max_history, session_start_time, now, logged,
                           clearIdx, lastOp, lastArg, result, resultList,
                           raised, error>>
            /\ UNCHANGED <<singletonVars, aggregatorVars, got>>

\* logger.info(log_msg) and the return of log_tool_call
WriteLog(c) ==
    /\ pc[c] = "log"
    /\ pc' = [pc EXCEPT ![c] = "idle"]
    /\ lastOp' = "log_tool_call"
    /\ lastArg' = None
    /\ result' = None
    /\ resultList' = "none"
    /\ raised' = FALSE
    /\ error' = None
    /\ UNCHANGED <<max_history, tool_calls, session_start_time, now, logged,
                   clearIdx>>
    /\ UNCHANGED <<singletonVars, aggregatorVars, got>>

\* clear() by a caller that is between two calls: self.tool_calls.clear()
ClearBy(c) ==
    /\ pc[c] = "idle"
    /\ tool_calls # <<>>
    /\ tool_calls' = <<>>
    /\ clearIdx' = Len(logged)
    /\ lastOp' = "clear"
    /\ lastArg' = None
    /\ result' = None
    /\ resultList' = "none"
    /\ raised' = FALSE
    /\ error' = None
    /\ UNCHANGED <<max_history, session_start_time, now, logged>>
    /\ UNCHANGED <<singletonVars, aggregatorVars, pc, got>>

\* get_telemetry, first statement: if _telemetry_instance is None
CheckInstance(c) ==
    /\ pc[c] = "idle"
    /\ got[c] = None
    /\ pc' = [pc EXCEPT ![c] = IF telemetry_instance = None THEN "create" ELSE "return"]
    /\ singletonOp' = "check"
    /\ UNCHANGED <<telemetry_instance, instances, held, prevHeld,
                   resetSinceGet, resetBetween, got>>
    /\ UNCHANGED <<telemetryVars, aggregatorVars>>

\* _telemetry_instance = AgentTelemetry()
CreateInstance(c) ==
    /\ pc[c] = "create"
    /\ instances' = Append(instances, NewInstance)
    /\ telemetry_instance' = Some(Len(instances) + 1)
    /\ pc' = [pc EXCEPT ![c] = "return"]
    /\ singletonOp' = "create"
    /\ UNCHANGED <<held, prevHeld, resetSinceGet, resetBetween, got>>
    /\ UNCHANGED <<telemetryVars, aggregatorVars>>

\* return _telemetry_instance
ReturnInstance(c) ==
    /\ pc[c] = "return"
    /\ got' = [got EXCEPT ![c] = telemetry_instance]
    /\ pc' = [pc EXCEPT ![c] = "idle"]
    /\ singletonOp' = "return"
    /\ UNCHANGED <<telemetry_instance, instances, held, prevHeld,
                   resetSinceGet, resetBetween>>
    /\ UNCHANGED <<telemetryVars, aggregatorVars>>

\* a caller logs through the collector its get_telemetry() returned
LogThroughOwn(c) ==
    /\ pc[c] = "idle"
    /\ LogThrough(got[c])

\* a get_telemetry() after those of the two callers have returned
LaterGetTelemetry ==
    /\ \A c \in Callers : pc[c] = "idle" /\ got[c] # None
    /\ GetTelemetry

NextConcurrentGet ==
    \/ \E c \in Callers : CheckInstance(c)
    \/ \E c \in Callers : CreateInstance(c)
    \/ \E c \in Callers : ReturnInstance(c)
    \/ \E c \in Callers : LogThroughOwn(c)
    \/ LaterGetTelemetry

NextConcurrentLog ==
    \/ \E c \in Callers : AppendCall(c)
    \/ \E c \in Callers : CheckCapacity(c)
    \/ \E c \in Callers : EvictOldest(c)
    \/ \E c \in Callers : WriteLog(c)
    \/ \E c \in Callers : ClearBy(c)

(* --------------------------- specifications ---------------------------- *)

\* a single thread: no call is ever left half done
Init ==
    /\ Constructed(0..MaxHistory) /\ ModuleLoaded /\ NoDataset
    /\ pc = <<>> /\ got = <<>>

\* a collector constructed with a negative max_history as well
InitAnyCapacity ==
    /\ Constructed((-1)..MaxHistory) /\ ModuleLoaded /\ NoDataset
    /\ pc = <<>> /\ got = <<>>

Next ==
    \/ \E a \in DirectArgs : LogToolCall(a[1], a[2], a[3], a[4], a[5], a[6])
    \/ \E t \in Tools, c \in PlainInvocations, e \in Elapsed : Wrapper(t, c, e)
    \/ Clear
    \/ GetLatestCall
    \/ \E n \in NArgs : GetCallHistory(n)
    \/ GetToolCallCounts
    \/ GetToolSuccessRate
    \/ GetAverageExecutionTime
    \/ GetSummary
    \/ \E k \in Mutations : MutateReturned(k)

Spec == Init /\ [][Next]_vars

SpecAnyCapacity == InitAnyCapacity /\ [][Next]_vars

\* the wrapper around one callable, over every kind of invocation
WrappedCall(call, elapsed) ==
    /\ Len(logged) < MaxWrapperCalls
    /\ Wrapper("t0", call, elapsed)

NextWrapper ==
    \/ \E c \in AllInvocations, e \in Elapsed : WrappedCall(c, e)
    \/ Clear
    \/ GetLatestCall

SpecWrapper == Init /\ [][NextWrapper]_vars

\* the singleton functions alone; the collector of the other
\* specifications is not used
InitSingleton ==
    /\ Constructed({0}) /\ ModuleLoaded /\ NoDataset
    /\ pc = <<>> /\ got = <<>>

SpecSingleton == InitSingleton /\ [][NextSingleton]_vars

\* one operation of the aggregation engine on one dataset
InitAggregator ==
    /\ Constructed({0}) /\ ModuleLoaded /\ DatasetGiven
    /\ pc = <<>> /\ got = <<>>

SpecAggregator == InitAggregator /\ [][NextAggregator]_vars

\* two threads that log to and clear one collector
InitConcurrentLog ==
    /\ Constructed(0..MaxHistory) /\ ModuleLoaded /\ NoDataset
    /\ pc = [c \in Callers |-> "idle"]
    /\ got = [c \in Callers |-> None]

SpecConcurrentLog == InitConcurrentLog /\ [][NextConcurrentLog]_vars

\* two threads that make their first get_telemetry() call
SpecConcurrentGet == InitConcurrentLog /\ [][NextConcurrentGet]_vars

\* the instrumented tools over one dataset, recording to the collector that
\* get_telemetry() constructs
InitTools ==
    /\ Constructed({DefaultMaxHistory}) /\ ModuleLoaded /\ DatasetGiven
    /\ pc = <<>> /\ got = <<>>

SpecTools == InitTools /\ [][NextTools]_vars

(* ------------------- vocabulary of the properties ---------------------- *)

Min(a, b) == IF a < b THEN a ELSE b

Last(s) == s[Len(s)]

\* the k newest elements of s, oldest first
Newest(s, k) == SubSeq(s, Len(s) - k + 1, Len(s))

Elements(s) == {s[i] : i \in 1..Len(s)}

\* the ToolCalls created since the most recent clear()
SinceClear == SubSeq(logged, clearIdx + 1, Len(logged))

NamesIn(calls) == {calls[i].tool_name : i \in 1..Len(calls)}

\* number of records of tool t in calls
Tally(calls, t) == Cardinality({i \in 1..Len(calls) : calls[i].tool_name = t})

\* number of successful records of tool t in calls
Successes(calls, t) ==
    Cardinality({i \in 1..Len(calls) :
                    calls[i].tool_name = t /\ calls[i].success})

\* sum of the execution times of tool t in calls
RECURSIVE TimeOf(_, _)
TimeOf(calls, t) ==
    IF calls = <<>> THEN 0
    ELSE (IF Head(calls).tool_name = t
          THEN TheValue(Head(calls).execution_time_ms) ELSE 0)
         + TimeOf(Tail(calls), t)

\* sum of the values of a dict
RECURSIVE SumValues(_)
SumValues(d) ==
    IF DOMAIN d = {} THEN 0
    ELSE LET k == CHOOSE x \in DOMAIN d : TRUE
         IN d[k] + SumValues([x \in DOMAIN d \ {k} |-> d[x]])

\* the fraction f = <<p, q>> is a / b
IsQuotient(f, a, b) == f[1] * b = a * f[2]

\* the per-tool mappings computed over calls hold exactly the tools of kept
\* and tally kept alone
MetricsCover(calls, kept) ==
    /\ DOMAIN get_tool_call_counts(calls) = NamesIn(kept)
    /\ \A t \in NamesIn(kept) :
          get_tool_call_counts(calls)[t] = Tally(kept, t)
    /\ DOMAIN get_tool_success_rate(calls) = NamesIn(kept)
    /\ \A t \in NamesIn(kept) :
          IsQuotient(get_tool_success_rate(calls)[t],
                     Successes(kept, t), Tally(kept, t))
    /\ ~AverageRaises(calls) =>
          /\ DOMAIN get_average_execution_time(calls) = NamesIn(kept)
          /\ \A t \in NamesIn(kept) :
                IsQuotient(get_average_execution_time(calls)[t],
                           TimeOf(kept, t), Tally(kept, t))
          /\ get_summary(calls, session_start_time, now).total_tool_calls
                = Len(kept)

(* ----------------------------- properties ------------------------------ *)

\* C1 (as amended): for a collector constructed with max_history >= 0, the
\* number of retained ToolCall records is <= max_history in every state,
\* i.e. whenever construction, log_tool_call, clear or a query has completed.
C1_CapacityNonNegative == max_history >= 0 => Len(tool_calls) <= max_history

\* C1 witness: a log_tool_call on a full collector of capacity >= 1 completed
C1_Witness ==
    /\ lastOp = "log_tool_call"
    /\ max_history >= 1
    /\ Len(SinceClear) > max_history
    /\ Len(tool_calls) = max_history

\* C1 as stated: for any max_history value whatever, the number of retained
\* records is <= max_history once an operation has completed.
C1_AnyCapacity == lastOp # "__init__" => Len(tool_calls) <= max_history

\* C2: when max_history + N records (N >= 1) have been logged with no clear
\* in between, exactly max_history records are retained, they are the
\* max_history newest in insertion order, and none of the N oldest is
\* returned by get_latest_call or get_call_history or counted in the per-tool
\* counts, success rates, average times or the summary total.
C2_StrictFIFO ==
    (clearIdx = 0 /\ Len(logged) > max_history) =>
        LET kept == Newest(logged, max_history)
            N == Len(logged) - max_history
        IN /\ Len(tool_calls) = max_history
           /\ tool_calls = kept
           /\ \A i \in 1..N :
                 /\ get_latest_call(tool_calls) # Some(logged[i])
                 /\ \A n \in NArgs :
                       logged[i] \notin
                           Elements(get_call_history(tool_calls, n))
           /\ MetricsCover(tool_calls, kept)
           /\ (lastOp \in {"get_latest_call", "get_call_history"}) =>
                 \A i \in 1..N : logged[i] \notin
                    (IF lastOp = "get_latest_call" THEN result
                     ELSE Elements(result))
           /\ (lastOp = "get_tool_call_counts") =>
                 \A t \in DOMAIN result : result[t] = Tally(kept, t)

\* C2 witness: capacity 1, three records of both tools logged without a
\* clear, and the counts were asked for: the evicted tool has no entry
C2_Witness ==
    /\ clearIdx = 0
    /\ max_history = 1
    /\ Len(logged) = 3
    /\ logged[1].tool_name # logged[3].tool_name
    /\ lastOp = "get_tool_call_counts"
    /\ logged[1].tool_name \notin DOMAIN result

\* C3 as stated: get_call_history(n) for n >= 0 returns exactly the
\* min(n, retained length) newest retained records, newest first, and
\* get_call_history() returns all retained records newest first.
C3_HistoryMin ==
    lastOp = "get_call_history" =>
        IF lastArg = None
        THEN result = Reversed(tool_calls)
        ELSE result = Reversed(Newest(tool_calls,
                                      Min(TheValue(lastArg), Len(tool_calls))))

\* C4: with a non-empty retained history and k >= 1, the first element of
\* get_call_history(k) is the record get_latest_call() returns, and it is the
\* record created by the most recent log_tool_call.
C4_HistoryHeadIsLatest ==
    tool_calls # <<>> =>
        /\ get_latest_call(tool_calls) = Some(Last(logged))
        /\ \A k \in 1..MaxN :
              Some(get_call_history(tool_calls, Some(k))[1])
                  = get_latest_call(tool_calls)
        /\ (lastOp = "get_call_history" /\ lastArg \notin {None, Some(0)}) =>
              result[1] = Last(logged)
        /\ lastOp = "get_latest_call" => result = Some(Last(logged))

\* C4 witness: get_call_history(1) returned while two records are retained
C4_Witness ==
    /\ lastOp = "get_call_history"
    /\ lastArg = Some(1)
    /\ Len(tool_calls) = 2
    /\ result = <<Last(logged)>>

\* C5: a get_call_history step leaves max_history, the retained records and
\* their order and the session-start timestamp as they were, and a change
\* made to the returned list leaves the retained history as it was.
C5_HistoryFrame ==
    [][/\ lastOp' = "get_call_history" => UNCHANGED collector
       /\ lastOp' = "mutate_returned" => UNCHANGED collector]_vars

\* C5 witness: the caller changed a non-empty returned list and the
\* collector still holds its records
C5_Witness ==
    /\ lastOp = "mutate_returned"
    /\ Len(tool_calls) = 2
    /\ result # Reversed(tool_calls)

\* C6: get_tool_success_rate() has an entry for exactly the tool names in
\* retained history, each equal to (retained successful records of the tool)
\* / (retained records of the tool); other tools have no entry.
C6_SuccessRate ==
    LET rates == get_tool_success_rate(tool_calls)
    IN /\ DOMAIN rates = NamesIn(tool_calls)
       /\ \A t \in DOMAIN rates :
             IsQuotient(rates[t], Successes(tool_calls, t),
                        Tally(tool_calls, t))
       /\ lastOp = "get_tool_success_rate" => result = rates

\* C6 witness: the rates were asked for, one tool succeeded once in two
\* retained calls, and a tool that was logged earlier has no entry any more
C6_Witness ==
    /\ lastOp = "get_tool_success_rate"
    /\ \E t \in DOMAIN result : result[t] = <<1, 2>>
    /\ \E i \in 1..Len(logged) : logged[i].tool_name \notin DOMAIN result

ClearedState ==
    /\ tool_calls = <<>>
    /\ get_latest_call(tool_calls) = None
    /\ DOMAIN get_tool_call_counts(tool_calls) = {}
    /\ DOMAIN get_tool_success_rate(tool_calls) = {}
    /\ DOMAIN get_average_execution_time(tool_calls) = {}

\* C8: clear() leaves the retained history empty (no latest call, empty
\* mappings), leaves session_start_time and max_history unchanged, and the
\* records logged after it are retained under the same capacity rule: the
\* min(max_history, number logged since) newest of them, in order.
C8_Clear ==
    /\ [](lastOp = "clear" => ClearedState)
    /\ [][lastOp' = "clear" =>
            /\ session_start_time' = session_start_time
            /\ max_history' = max_history]_vars
    /\ [](tool_calls = Newest(SinceClear, Min(max_history, Len(SinceClear))))

\* C8 witness: after a clear that emptied a non-empty history, more records
\* than the capacity were logged
C8_Witness ==
    /\ clearIdx > 0
    /\ max_history = 1
    /\ Len(SinceClear) = 2
    /\ tool_calls = <<Last(logged)>>

\* C9 as stated: log_tool_call completes without raising, whatever the
\* argument values, and the record is appended.
C9_NeverRaises ==
    lastOp = "log_tool_call" => (~raised /\ Last(logged).timestamp = now - 1)

\* C10 (as amended): the ToolCall recorded by the instrumentation wrapper
\* has an error message present if and only if its success flag is false.
C10_WrapperErrorIffFailure ==
    (lastOp = "wrapper" /\ WrapperRun(lastArg.call).log # None) =>
        /\ (Last(logged).error_message # None) <=> ~Last(logged).success
        /\ tool_calls # <<>> => Last(tool_calls) = Last(logged)

\* C10 witness: the wrapped callable raised and the failure record with its
\* message is the newest retained record
C10_Witness ==
    /\ lastOp = "wrapper"
    /\ raised
    /\ tool_calls # <<>>
    /\ ~Last(tool_calls).success
    /\ Last(tool_calls).error_message = Some("boom")

\* C10 as stated: every retained ToolCall has an error message present if
\* and only if its success flag is false, however it was logged.
C10_ErrorIffFailure ==
    \A i \in 1..Len(tool_calls) :
        (tool_calls[i].error_message # None) <=> ~tool_calls[i].success

\* C11, fields: a record that is retained before and after a step has the
\* same fields
RecordsKeptIntact ==
    \A i \in 1..Len(tool_calls), j \in 1..Len(tool_calls') :
        tool_calls[i].timestamp = tool_calls'[j].timestamp =>
            tool_calls'[j] = tool_calls[i]

\* C11, eviction: the step is a log_tool_call (direct or by the wrapper)
\* that appended a record and, being over max_history, dropped the oldest
EvictionStep ==
    /\ lastOp' \in {"log_tool_call", "wrapper"}
    /\ Len(logged') = Len(logged) + 1
    /\ Len(tool_calls) + 1 > max_history
    /\ tool_calls' = Tail(Append(tool_calls, Last(logged')))

\* C11, no eviction: every retained record stays and at most the new one
\* is added at the end
NothingLeaves ==
    \/ /\ Len(logged') = Len(logged)
       /\ tool_calls' = tool_calls
    \/ /\ lastOp' \in {"log_tool_call", "wrapper"}
       /\ Len(logged') = Len(logged) + 1
       /\ Len(tool_calls) + 1 <= max_history
       /\ tool_calls' = Append(tool_calls, Last(logged'))

\* C11 (as amended): no collector operation changes a field of a retained
\* ToolCall, and a ToolCall leaves the retained history only through the
\* oldest-first eviction of a log_tool_call that pushes the history over
\* max_history, or through clear(), which removes every retained record.
C11_LeavesByEvictionOrClear ==
    [][/\ RecordsKeptIntact
       /\ \/ NothingLeaves
          \/ EvictionStep
          \/ lastOp' = "clear" /\ tool_calls' = <<>>]_vars

\* C11 witness: a log_tool_call on a full collector of capacity 2 pushed the
\* oldest record out and kept the other one unchanged in front of the new one
C11_Witness ==
    /\ lastOp = "log_tool_call"
    /\ max_history = 2
    /\ clearIdx = 0
    /\ Len(logged) = 3
    /\ tool_calls = <<logged[2], logged[3]>>

\* C11 as stated: no operation changes a field of a retained ToolCall, and
\* a ToolCall leaves the retained history only through oldest-first
\* eviction by a log_tool_call that pushes the history over max_history.
C11_LeavesOnlyByEviction ==
    [][/\ RecordsKeptIntact
       /\ \/ NothingLeaves
          \/ EvictionStep]_vars

\* C12: with no reset_telemetry() between them, two get_telemetry() calls
\* return the same instance; the first get_telemetry() after a
\* reset_telemetry() returns the instance that reset created, which is not
\* the one handed out before and has an empty history.
C12_SingletonReuse ==
    singletonOp = "get_telemetry" =>
        /\ held # None
        /\ held = telemetry_instance
        /\ (prevHeld # None /\ ~resetBetween) => held = prevHeld
        /\ resetBetween =>
              /\ held # prevHeld
              /\ instances[TheValue(held)].tool_calls = <<>>

\* C12 witness: a record was logged through the first instance, then
\* reset_telemetry() and get_telemetry() ran, as in test_reset_telemetry
C12_Witness ==
    /\ singletonOp = "get_telemetry"
    /\ resetBetween
    /\ prevHeld # None
    /\ instances[TheValue(prevHeld)].tool_calls # <<>>
    /\ held # prevHeld

\* the wrapper step that has just completed was an invocation of a
\* callable that returned normally / that raised
ReturnedNormally == lastOp' = "wrapper" /\ ~lastArg'.call.f_raises

CallableRaised == lastOp' = "wrapper" /\ lastArg'.call.f_raises

\* C13 as stated: when the wrapped callable returns normally, the wrapper
\* returns exactly its result and appends exactly one ToolCall, with the
\* declared tool name, success = true and no error message.
C13_NormalReturn ==
    [][ReturnedNormally =>
          /\ ~raised'
          /\ result' = Some(lastArg'.call.value)
          /\ Len(logged') = Len(logged) + 1
          /\ Last(logged').tool_name = lastArg'.tool_name
          /\ Last(logged').success
          /\ Last(logged').error_message = None]_vars

\* C14 as stated: when the wrapped callable raises e, exactly one ToolCall
\* is appended, with success = false and error message the message of e,
\* and the wrapper raises e, not another error and not a normal return.
C14_RaiseRecordedAndReraised ==
    [][CallableRaised =>
          /\ Len(logged') = Len(logged) + 1
          /\ ~Last(logged').success
          /\ Last(logged').error_message = Some(lastArg'.call.f_msg)
          /\ raised'
          /\ error' = Some(lastArg'.call.f_msg)
          /\ result' = None]_vars

\* C15 as stated: whatever the recording step does, the wrapped call ends
\* as the callable itself does: it returns the callable's value or raises
\* the callable's error.
C15_Observational ==
    lastOp = "wrapper" =>
        IF lastArg.call.f_raises
        THEN raised /\ error = Some(lastArg.call.f_msg)
        ELSE ~raised /\ result = Some(lastArg.call.value)

\* the ToolCall a wrapper step has just recorded has snapshots of at most
\* SnapshotLimit characters for args and kwargs
InputBounded(call) ==
    /\ DOMAIN call.tool_input = {"args", "kwargs"}
    /\ call.tool_input.args <= SnapshotLimit
    /\ call.tool_input.kwargs <= SnapshotLimit

\* a wrapper step that recorded a ToolCall
WrapperRecorded == lastOp' = "wrapper" /\ Len(logged') = Len(logged) + 1

\* C16 (as amended): every ToolCall recorded by the wrapper stores the args
\* text and the kwargs text as strings of at most 200 characters; its output
\* snapshot is a string of at most 200 characters when the record is a
\* success record and is None when it is a failure record.
C16_SnapshotsBoundedOrNone ==
    [][WrapperRecorded =>
          LET call == Last(logged')
          IN /\ InputBounded(call)
             /\ call.success =>
                   /\ call.tool_output # None
                   /\ TheValue(call.tool_output) <= SnapshotLimit
             /\ ~call.success => call.tool_output = None]_vars

\* C16 witness: a call with a 500 character args text that returned a 1000
\* character value was recorded with both cut to 200
C16_Witness ==
    /\ lastOp = "wrapper"
    /\ lastArg.call.args_text = Some(500)
    /\ lastArg.call.value.text = Some(1000)
    /\ ~raised
    /\ Last(logged).tool_input.args = 200
    /\ Last(logged).tool_output = Some(200)

\* C16 as stated: every ToolCall recorded by the wrapper stores the args
\* text, the kwargs text and the output snapshot as strings of at most 200
\* characters.
C16_SnapshotsBounded ==
    [][WrapperRecorded =>
          LET call == Last(logged')
          IN /\ InputBounded(call)
             /\ call.tool_output # None
             /\ TheValue(call.tool_output) <= SnapshotLimit]_vars

\* the operation a behaviour of the aggregation engine applied and what
\* the operation did
TheCall == TheValue(aggCall)

TheOutcome == TheValue(aggOutcome)

\* the column names an operation was given
Referenced(call) ==
    {call.column, call.group_column, call.value_column, call.filter_column,
     call.agg_column} \ {NoArg}

\* a ValueError saying that a column is not found
ColumnNotFound(outcome) ==
    /\ outcome.kind = "ValueError"
    /\ outcome.message \in {NotFoundText, GroupNotFoundText, ValueNotFoundText}

NotNumeric(outcome, column) ==
    outcome = Raised("ValueError", NotNumericText, column)

EmptyFilterResult(outcome, filter_column) ==
    outcome = Raised("ValueError", NoRowsText, filter_column)

UnknownAggregation(outcome, agg_func) ==
    outcome = Raised("ValueError", UnknownText, agg_func)

\* the column is in the dataset and holds a text
HoldsText(column) ==
    /\ column \in DOMAIN dataframe
    /\ \E i \in DOMAIN dataframe[column].values :
          dataframe[column].values[i].kind = "text"

\* some row of the dataset has the filter column equal to the filter value
SomeRowMatches(call) ==
    /\ call.filter_column \in DOMAIN dataframe
    /\ \E i \in DOMAIN dataframe[call.filter_column].values :
          Matches(dataframe[call.filter_column].values[i], call.filter_value)

NumericOps == {"sum", "average", "min", "max", "median"}

NumericFuncs == {"sum", "avg", "min", "max", "median"}

GroupedOps == {"groupby_sum", "groupby_average"}

\* C17 as stated: an operation given a column name that is not a column
\* of the dataset fails with the ValueError saying the column is not found,
\* whichever of its column arguments it is.
C17_ColumnNotFound ==
    (aggCall # None /\ Referenced(TheCall) \ DOMAIN dataframe # {}) =>
        ColumnNotFound(TheOutcome)

\* C18 (as amended): on a column that holds a text, sum, average, min, max
\* and median fail with NotNumeric naming the column; groupby_sum and
\* groupby_average do so for their value column when the group column
\* exists; filter_and_aggregate with sum/avg/min/max/median does so when
\* some row matches the filter, and returns no number in any case.
C18_NotNumericAfterEarlierChecks ==
    aggCall # None =>
        /\ (TheCall.op \in NumericOps /\ HoldsText(TheCall.column)) =>
              NotNumeric(TheOutcome, TheCall.column)
        /\ (TheCall.op \in GroupedOps /\ HoldsText(TheCall.value_column)) =>
              /\ TheOutcome.kind # "ok"
              /\ TheCall.group_column \in DOMAIN dataframe =>
                    NotNumeric(TheOutcome, TheCall.value_column)
        /\ (/\ TheCall.op = "filter_and_aggregate"
            /\ TheCall.agg_func \in NumericFuncs
            /\ HoldsText(TheCall.agg_column)) =>
              /\ TheOutcome.kind # "ok"
              /\ SomeRowMatches(TheCall) =>
                    NotNumeric(TheOutcome, TheCall.agg_column)

\* C18 witness: a median through filter_and_aggregate, over matching rows,
\* of a column that holds a text was refused as not numeric
C18_Witness ==
    /\ aggCall # None
    /\ TheCall.op = "filter_and_aggregate"
    /\ TheCall.agg_func = "median"
    /\ HoldsText(TheCall.agg_column)
    /\ SomeRowMatches(TheCall)
    /\ NotNumeric(TheOutcome, TheCall.agg_column)

\* C18 as stated: sum, average, min, max and median, called directly or
\* through filter_and_aggregate, and groupby_sum and groupby_average on
\* their value column fail with NotNumeric naming the column whenever the
\* column exists and holds a non-null value that is not a number.
C18_NotNumeric ==
    aggCall # None =>
        /\ (TheCall.op \in NumericOps /\ HoldsText(TheCall.column)) =>
              NotNumeric(TheOutcome, TheCall.column)
        /\ (TheCall.op \in GroupedOps /\ HoldsText(TheCall.value_column)) =>
              NotNumeric(TheOutcome, TheCall.value_column)
        /\ (/\ TheCall.op = "filter_and_aggregate"
            /\ TheCall.agg_func \in NumericFuncs
            /\ HoldsText(TheCall.agg_column)) =>
              NotNumeric(TheOutcome, TheCall.agg_column)

\* C19: filter_and_aggregate on an existing filter column that no row has
\* equal to the filter value fails with EmptyFilterResult, whatever the
\* aggregation column and keyword are; it returns nothing.
C19_EmptyFilterResult ==
    (/\ aggCall # None
     /\ TheCall.op = "filter_and_aggregate"
     /\ TheCall.filter_column \in DOMAIN dataframe
     /\ ~SomeRowMatches(TheCall)) =>
        EmptyFilterResult(TheOutcome, TheCall.filter_column)

\* C19 witness: a sum over a numeric column of a dataset that has rows,
\* none of which matches the filter, was refused
C19_Witness ==
    /\ aggCall # None
    /\ TheCall.op = "filter_and_aggregate"
    /\ TheCall.agg_func = "sum"
    /\ TheCall.filter_column \in DOMAIN dataframe
    /\ TheCall.agg_column \in DOMAIN dataframe
    /\ is_numeric_dtype(dataframe[TheCall.agg_column])
    /\ NumRows(dataframe) > 0
    /\ ~SomeRowMatches(TheCall)
    /\ EmptyFilterResult(TheOutcome, TheCall.filter_column)

\* C20 (as amended): filter_and_aggregate with a keyword outside
\* {sum, avg, min, max, median, count} never returns a result; it fails
\* with UnknownAggregation when some row matches the filter, whether or not
\* the aggregation column exists, and with EmptyFilterResult when the
\* filter column exists and no row matches.
C20_UnknownAfterFilter ==
    (/\ aggCall # None
     /\ TheCall.op = "filter_and_aggregate"
     /\ TheCall.agg_func \notin AggFuncs) =>
        /\ TheOutcome.kind # "ok"
        /\ SomeRowMatches(TheCall) =>
              UnknownAggregation(TheOutcome, TheCall.agg_func)
        /\ (TheCall.filter_column \in DOMAIN dataframe
            /\ ~SomeRowMatches(TheCall)) =>
              EmptyFilterResult(TheOutcome, TheCall.filter_column)

\* C20 witness: an unknown keyword on matching rows, with an aggregation
\* column that is not in the dataset, was refused as unknown
C20_Witness ==
    /\ aggCall # None
    /\ TheCall.op = "filter_and_aggregate"
    /\ TheCall.agg_func \notin AggFuncs
    /\ TheCall.agg_column \notin DOMAIN dataframe
    /\ SomeRowMatches(TheCall)
    /\ UnknownAggregation(TheOutcome, TheCall.agg_func)

\* C20 as stated: filter_and_aggregate with a keyword outside
\* {sum, avg, min, max, median, count} fails with UnknownAggregation for
\* every dataset, filter column, filter value and aggregation column.
C20_UnknownAggregation ==
    (/\ aggCall # None
     /\ TheCall.op = "filter_and_aggregate"
     /\ TheCall.agg_func \notin AggFuncs) =>
        UnknownAggregation(TheOutcome, TheCall.agg_func)

\* a numeric column as the datasets are described: every non-null value
\* of the column is a number
AllNumbers(column) ==
    /\ column \in DOMAIN dataframe
    /\ \A i \in DOMAIN dataframe[column].values :
          dataframe[column].values[i].kind \in {"num", "null"}

\* the sum and the number of the non-null values of a column
RECURSIVE SumUpTo(_, _)
SumUpTo(values, n) ==
    IF n = 0 THEN 0
    ELSE SumUpTo(values, n - 1)
         + (IF values[n].kind = "num" THEN values[n].num ELSE 0)

SumOfNonNull(column) ==
    SumUpTo(dataframe[column].values, Len(dataframe[column].values))

NumberOfNonNull(column) ==
    Cardinality({i \in DOMAIN dataframe[column].values :
                    dataframe[column].values[i].kind # "null"})

\* C21 as stated: on a numeric column sum_column returns the sum of the
\* non-null values, nulls not counted as zero, and average_column returns
\* that sum divided by count_column whenever count_column is positive.
C21_SumAndAverage ==
    (aggCall # None /\ AllNumbers(TheCall.column)) =>
        /\ TheCall.op = "sum" =>
              TheOutcome = Returned(Float(SumOfNonNull(TheCall.column)))
        /\ (TheCall.op = "average" /\ NumberOfNonNull(TheCall.column) > 0) =>
              /\ count_column(dataframe, TheCall.column)
                   = Returned(NumberOfNonNull(TheCall.column))
              /\ TheOutcome = Returned(Quotient(SumOfNonNull(TheCall.column),
                                                NumberOfNonNull(TheCall.column)))

\* the sum of the values of a dict
RECURSIVE SumOfDict(_, _)
SumOfDict(dict, keys) ==
    IF keys = {} THEN 0
    ELSE LET key == CHOOSE k \in keys : TRUE
         IN dict[key] + SumOfDict(dict, keys \ {key})

\* C22 as stated: for an existing group column, with or without null
\* values, the partition sizes groupby_count returns add up to the number
\* of rows of the dataset.
C22_PartitionSizesCoverRows ==
    (/\ aggCall # None
     /\ TheCall.op = "groupby_count"
     /\ TheCall.group_column \in DOMAIN dataframe) =>
        /\ TheOutcome.kind = "ok"
        /\ LET sizes == TheValue(TheOutcome.value)
           IN SumOfDict(sizes, DOMAIN sizes) = NumRows(dataframe)

\* the keyword of filter_and_aggregate that does what a grouped operation
\* does inside each group
FuncOf(op) == IF op = "groupby_sum" THEN "sum" ELSE "avg"

\* C23 as stated: for a group column g, a numeric value column v and each
\* key k occurring in g, the entry of groupby_sum(g, v) under the text of k
\* is what filter_and_aggregate(g, k, v, "sum") returns, and the entry of
\* groupby_average is what filter_and_aggregate(g, k, v, "avg") returns.
C23_GroupEqualsFilter ==
    (/\ aggCall # None
     /\ TheCall.op \in GroupedOps
     /\ TheCall.group_column \in DOMAIN dataframe
     /\ AllNumbers(TheCall.value_column)) =>
        /\ TheOutcome.kind = "ok"
        /\ LET group == dataframe[TheCall.group_column]
               grouped == TheValue(TheOutcome.value)
           IN \A k \in GroupKeys(group) :
                 /\ KeyText(group.dtype, k) \in DOMAIN grouped
                 /\ filter_and_aggregate(dataframe, TheCall.group_column, k,
                                         TheCall.value_column,
                                         FuncOf(TheCall.op))
                      = Returned(grouped[KeyText(group.dtype, k)])

\* C24 as stated: the dict returned by groupby_sum, groupby_average and
\* groupby_count has an entry under the text of each distinct (non-null)
\* key of the group column, no other entry, and as many entries as there
\* are distinct keys.
C24_OneEntryPerKey ==
    (/\ aggCall # None
     /\ TheCall.op \in GroupedOps \cup {"groupby_count"}
     /\ TheOutcome.kind = "ok") =>
        LET group == dataframe[TheCall.group_column]
            grouped == TheValue(TheOutcome.value)
        IN /\ DOMAIN grouped = {KeyText(group.dtype, k) : k \in GroupKeys(group)}
           /\ Cardinality(DOMAIN grouped) = Cardinality(GroupKeys(group))

\* the distinct values of a column, a null counted as one of them
DistinctValues(column) ==
    {dataframe[column].values[i] : i \in DOMAIN dataframe[column].values}

\* a list holds each of its elements once, in the order in which the
\* column first shows them
FirstOccurrenceOrder(list, column) ==
    LET values == dataframe[column].values
        First(cell) == CHOOSE i \in DOMAIN values :
                          /\ values[i] = cell
                          /\ \A j \in 1..(i - 1) : values[j] # cell
    IN /\ \A i, j \in DOMAIN list : i < j => First(list[i]) < First(list[j])
       /\ {list[i] : i \in DOMAIN list} \subseteq DistinctValues(column)

\* C30 as stated: on an existing column of at most 20 distinct values,
\* nulls included, unique_count is the number of elements of unique_values,
\* and unique_values lists each distinct value once, in first-occurrence
\* order; beyond 20 distinct values it returns the first 20.
C30_UniqueCountIsLength ==
    (/\ aggCall # None
     /\ TheCall.op \in {"unique_count", "unique_values"}
     /\ TheCall.column \in DOMAIN dataframe) =>
        /\ TheOutcome.kind = "ok"
        /\ TheCall.op = "unique_values" =>
              LET list == TheValue(TheOutcome.value)
              IN /\ FirstOccurrenceOrder(list, TheCall.column)
                 /\ Len(list) = IF Cardinality(DistinctValues(TheCall.column))
                                     <= UniqueLimit
                                 THEN Cardinality(DistinctValues(TheCall.column))
                                 ELSE UniqueLimit
        /\ (/\ TheCall.op = "unique_count"
            /\ Cardinality(DistinctValues(TheCall.column)) <= UniqueLimit) =>
              unique_values(dataframe, TheCall.column).kind = "ok"
              /\ TheValue(TheOutcome.value)
                   = Len(TheValue(unique_values(dataframe, TheCall.column).value))

\* the elements of a list
ElementsOf(list) == {list[i] : i \in DOMAIN list}

\* C25 as stated: get_available_aggregations has an entry for every
\* column; a column whose non-null values are all numbers gets
\* {sum, avg, min, max, median, count}, every other column gets
\* {count, unique_values}; and a column that is given the numeric
\* operations is not refused as not numeric by sum_column.
C25_AvailableAggregations ==
    (aggCall # None /\ TheCall.op = "get_available_aggregations") =>
        /\ TheOutcome.kind = "ok"
        /\ LET available == TheValue(TheOutcome.value)
           IN /\ DOMAIN available = DOMAIN dataframe
              /\ \A col \in DOMAIN available :
                    /\ ElementsOf(available[col])
                         = IF AllNumbers(col)
                           THEN {"sum", "avg", "min", "max", "median", "count"}
                           ELSE {"count", "unique_values"}
                    /\ "sum" \in ElementsOf(available[col]) =>
                          sum_column(dataframe, col).kind = "ok"

\* no caller is inside a call
Quiet == \A c \in Callers : pc[c] = "idle"

\* the n most recently appended records
MostRecent(n) == SubSeq(logged, Len(logged) - n + 1, Len(logged))

\* C26 as stated: whenever the log_tool_call calls of two threads have all
\* completed, in whatever order their append, capacity check and evict
\* steps were interleaved, and no record was cleared, the history holds at
\* most max_history records and they are the most recently appended ones.
C26_ConcurrentLogsKeepNewest ==
    (Quiet /\ clearIdx = 0) =>
        /\ Len(tool_calls) <= max_history
        /\ tool_calls = MostRecent(Min(max_history, Len(logged)))

\* C27 as stated: with clear() running between any two steps of a
\* log_tool_call, the log_tool_call completes without raising, and once
\* every call has completed the history holds at most max_history records.
C27_ClearDuringLog ==
    /\ lastOp = "log_tool_call" => ~raised
    /\ Quiet => Len(tool_calls) <= max_history

\* both callers have their collector
BothReturned == \A c \in Callers : pc[c] = "idle" /\ got[c] # None

\* the records of a collector
RecordsOf(ref) ==
    {instances[TheValue(ref)].tool_calls[i] :
        i \in DOMAIN instances[TheValue(ref)].tool_calls}

\* C28 as stated: two callers whose first get_telemetry() calls overlap get
\* the same collector, and what either logs through its reference is in
\* the collector every later get_telemetry() returns.
C28_ConcurrentFirstGet ==
    BothReturned =>
        /\ \A c, d \in Callers : got[c] = got[d]
        /\ singletonOp = "get_telemetry" =>
              \A c \in Callers : RecordsOf(got[c]) \subseteq RecordsOf(held)

\* an instrumented tool has been invoked; its name and column arguments
AggregationTools ==
    NumericTools \cup GroupedTools \cup {"count_column", "groupby_count"}

ToolInvoked == lastOp = "wrapper" /\ lastArg.tool_name \in AggregationTools

InvokedTool == lastArg.tool_name

ColumnArgs == lastArg.call.arguments

AbsentColumn(name) == name \notin DOMAIN dataframe

\* a column with a value that is neither a number nor null
NonNumericColumn(name) ==
    /\ name \in DOMAIN dataframe
    /\ \E i \in DOMAIN dataframe[name].values :
          dataframe[name].values[i].kind = "text"

\* the texts of the engine's validation errors
ValidationTexts ==
    UNION {{"Column '" \o n \o "' not found",
            "Column '" \o n \o "' is not numeric",
            "Group column '" \o n \o "' not found",
            "Value column '" \o n \o "' not found"} : n \in Names}

BeginsWithError(text) == \E m \in ValidationTexts : text = "Error: " \o m

\* the tool returned an "Error:" string and was recorded as a success
ErrorCountedAsSuccess ==
    /\ ~raised
    /\ result # None
    /\ TheValue(result).id.value = None
    /\ BeginsWithError(TheValue(result).id.text)
    /\ logged # <<>>
    /\ Last(logged).tool_name = InvokedTool
    /\ Last(logged).success
    /\ Last(logged).error_message = None
    /\ get_tool_success_rate(tool_calls)[InvokedTool] = <<1, 1>>

\* the column the engine needs numbers in: the one of sum / average / min /
\* max, the value column of groupby_sum / groupby_average
RejectedByEngine ==
    \/ \E i \in DOMAIN ColumnArgs : AbsentColumn(ColumnArgs[i])
    \/ InvokedTool \in NumericTools /\ NonNumericColumn(ColumnArgs[1])
    \/ InvokedTool \in GroupedTools /\ NonNumericColumn(ColumnArgs[2])

\* C29 (as amended): when an instrumented aggregation tool is invoked with
\* an absent column, or with a non-numeric column where the engine needs
\* numbers (the column of sum_column, average_column, min_column and
\* max_column, the value column of groupby_sum and groupby_average), the
\* tool does not raise but returns a string beginning with "Error:", and
\* the ToolCall recorded has success = true and no error message, so that
\* get_tool_success_rate counts it as a success.
C29_ErrorStringIsSuccess ==
    (ToolInvoked /\ RejectedByEngine) => ErrorCountedAsSuccess

\* C29 witness: groupby_sum over an existing group column and a value
\* column that holds a text has been invoked through its wrapper
C29_Witness ==
    /\ ToolInvoked
    /\ InvokedTool = "groupby_sum"
    /\ ~AbsentColumn(ColumnArgs[1])
    /\ NonNumericColumn(ColumnArgs[2])
    /\ ErrorCountedAsSuccess

\* C29 as stated: any of the eight tools invoked with an absent or
\* non-numeric column returns an "Error:" string recorded as a success.
C29_AnyNonNumericColumn ==
    (/\ ToolInvoked
     /\ \E i \in DOMAIN ColumnArgs :
           AbsentColumn(ColumnArgs[i]) \/ NonNumericColumn(ColumnArgs[i]))
        => ErrorCountedAsSuccess

====
